---------------------------- MODULE Spec2Model ----------------------------
(***************************************************************************)
(* Model of open_trivia_db_scraper.py: the text normalizer (unescape_any), *)
(* the category mapper (get_trivial_pursuit_cat), the fetch client         *)
(* (get_new_token, fetch_trivia_questions), the persisted store (read_db,  *)
(* the json.dump calls of main) and the accumulator loop of main.          *)
(*                                                                         *)
(* Python values are tagged records [t, v]:                                *)
(*   t = "str"   v = the text, a sequence of one-character strings         *)
(*   t = "list"  v = a sequence of values        (t = "tuple" likewise)    *)
(*   t = "dict"  v = a sequence of entries [k, v] in insertion order, k a  *)
(*               text with no two entries sharing a key                    *)
(*   t = "num"   v = <<>> (a JSON number; its value is never inspected)    *)
(***************************************************************************)
EXTENDS Integers, Sequences, FiniteSets, TLC

VARIABLES
    pc,        \* position of main: load, token, fetch, merge, ... stopped, crashed
    db,        \* main's local db (a Python value)
    file,      \* db.json on disk
    file0,     \* db.json as main found it (history)
    csv,       \* db.csv on disk
    pandas,    \* whether "import pandas" succeeds in this installation
    token,     \* the session token ("none" until acquired)
    response,  \* the body of the last batch response
    results,   \* the current batch (a Python list)
    idx,       \* index of "for result in results"
    pos,       \* <<entry, question>> the export loops are at, <<0, 0>> past the end
    exc,       \* the exception that left the loop or the process
    snap,      \* db at the moment exc was raised in the loop (history)
    writes,    \* completed json.dump calls: [loop |-> n, final |-> n]
    exit,      \* exit status of the process ("none" while it runs)
    cycles,    \* completed passes of the while loop
    fetched,   \* records fetched so far
    inp,       \* input of the pure-function specifications
    out        \* their results

main_vars ==
    <<pc, db, file, file0, csv, pandas, token, response, results, idx, pos, exc,
      snap, writes, exit, cycles, fetched>>

vars ==
    <<pc, db, file, file0, csv, pandas, token, response, results, idx, pos, exc,
      snap, writes, exit, cycles, fetched, inp, out>>

(***************************************************************************)
(* Bounds of the model.                                                    *)
(***************************************************************************)
\* passes of the unbounded while loop that are explored
MaxCycles ==
    2

\* records fetched over all passes (the batch size of 50 is scaled down)
MaxFetched ==
    3

\* pieces concatenated into an input text of unescape / the category mapper
MaxPieces ==
    3

(***************************************************************************)
(* Texts.                                                                  *)
(***************************************************************************)
s_Art ==
    <<"A", "r", "t">>

s_Animals ==
    <<"A", "n", "i", "m", "a", "l", "s">>

s_History ==
    <<"H", "i", "s", "t", "o", "r", "y">>

s_Entertainment ==
    <<"E", "n", "t", "e", "r", "t", "a", "i", "n", "m", "e", "n", "t">>

s_Sports ==
    <<"S", "p", "o", "r", "t", "s">>

s_Politics ==
    <<"P", "o", "l", "i", "t", "i", "c", "s">>

s_Celebrities ==
    <<"C", "e", "l", "e", "b", "r", "i", "t", "i", "e", "s">>

s_Mythology ==
    <<"M", "y", "t", "h", "o", "l", "o", "g", "y">>

s_GeneralKnowledge ==
    <<"G", "e", "n", "e", "r", "a", "l", " ", "K", "n", "o", "w", "l", "e", "d", "g", "e">>

s_ScienceAmpNature ==
    <<"S", "c", "i", "e", "n", "c", "e", " ", "&", " ", "N", "a", "t", "u", "r", "e">>

s_Vehicles ==
    <<"V", "e", "h", "i", "c", "l", "e", "s">>

s_Geography ==
    <<"G", "e", "o", "g", "r", "a", "p", "h", "y">>

s_Science ==
    <<"S", "c", "i", "e", "n", "c", "e">>

s_ArtAndLiterature ==
    <<"A", "r", "t", " ", "a", "n", "d", " ", "L", "i", "t", "e", "r", "a", "t", "u", "r", "e">>

s_ScienceAndNature ==
    <<"S", "c", "i", "e", "n", "c", "e", " ", "a", "n", "d", " ", "N", "a", "t", "u", "r", "e">>

s_SportsAndLeisure ==
    <<"S", "p", "o", "r", "t", "s", " ", "a", "n", "d", " ", "L", "e", "i", "s", "u", "r", "e">>

s_UnknownCategory ==
    <<"U", "n", "k", "n", "o", "w", "n", " ", "C", "a", "t", "e", "g", "o", "r", "y">>

s_EntertainmentAnime ==
    <<"E", "n", "t", "e", "r", "t", "a", "i", "n", "m", "e", "n", "t", ":", " ", "J", "a", "p", "a", "n", "e", "s", "e", " ", "A", "n", "i", "m", "e", " ", "&", " ", "M", "a", "n", "g", "a">>

s_ScienceEscNature ==
    <<"S", "c", "i", "e", "n", "c", "e", " ", "&", "a", "m", "p", ";", " ", "N", "a", "t", "u", "r", "e">>

s_EntertainmentFilm ==
    <<"E", "n", "t", "e", "r", "t", "a", "i", "n", "m", "e", "n", "t", ":", " ", "F", "i", "l", "m">>

s_category ==
    <<"c", "a", "t", "e", "g", "o", "r", "y">>

s_question ==
    <<"q", "u", "e", "s", "t", "i", "o", "n">>

s_macro_category ==
    <<"m", "a", "c", "r", "o", "_", "c", "a", "t", "e", "g", "o", "r", "y">>

Str(s) ==
    [t |-> "str", v |-> s]

List(xs) ==
    [t |-> "list", v |-> xs]

Tuple(xs) ==
    [t |-> "tuple", v |-> xs]

Dict(es) ==
    [t |-> "dict", v |-> es]

Num ==
    [t |-> "num", v |-> <<>>]

Max(S) ==
    CHOOSE x \in S : \A y \in S : y <= x

\* "k in d" for a dict d
dict_has(d, k) ==
    \E i \in DOMAIN d.v : d.v[i].k = k

\* d[k] for a key d has
dict_get(d, k) ==
    d.v[CHOOSE i \in DOMAIN d.v : d.v[i].k = k].v

\* d[k] = x: a present key keeps its place, a new key goes last
dict_set(d, k, x) ==
    IF dict_has(d, k)
    THEN Dict([i \in DOMAIN d.v |->
                 IF d.v[i].k = k THEN [k |-> k, v |-> x] ELSE d.v[i]])
    ELSE Dict(Append(d.v, [k |-> k, v |-> x]))

(***************************************************************************)
(* html.unescape, on texts without "#" (numeric references do not occur in *)
(* the texts of this model).  The named references known are those of the  *)
(* html5 table that the letters a, l, m, p, t can spell after "&".         *)
(***************************************************************************)
html5 ==
    (<<"a", "m", "p", ";">> :> <<"&">>) @@ (<<"a", "m", "p">> :> <<"&">>) @@
    (<<"l", "t", ";">> :> <<"<">>) @@ (<<"l", "t">> :> <<"<">>)

\* [^\t\n\f <&#;]
name_char(c) ==
    c \notin {"\t", "\n", "\f", " ", "<", "&", "#", ";"}

RECURSIVE name_run(_, _, _)
\* length of the run of name characters of s from position i, n counted so far
name_run(s, i, n) ==
    IF i <= Len(s) /\ n < 32 /\ name_char(s[i])
    THEN name_run(s, i + 1, n + 1)
    ELSE n

\* html._replace_charref for a named reference g (the text matched after "&")
replace_charref(g) ==
    IF g \in DOMAIN html5
    THEN html5[g]
    ELSE LET xs == {x \in 2 .. (Len(g) - 1) : SubSeq(g, 1, x) \in DOMAIN html5}
         IN  IF xs # {}
             THEN html5[SubSeq(g, 1, Max(xs))] \o SubSeq(g, Max(xs) + 1, Len(g))
             ELSE <<"&">> \o g

RECURSIVE charref_sub(_, _)
\* _charref.sub(_replace_charref, s) from position i: matches are replaced
\* left to right and a replacement is not scanned again
charref_sub(s, i) ==
    IF i > Len(s)
    THEN <<>>
    ELSE IF s[i] = "&" /\ name_run(s, i + 1, 0) > 0
         THEN LET n   == name_run(s, i + 1, 0)
                  end == IF i + n + 1 <= Len(s) /\ s[i + n + 1] = ";"
                         THEN i + n + 1 ELSE i + n
              IN  replace_charref(SubSeq(s, i + 1, end)) \o charref_sub(s, end + 1)
         ELSE <<s[i]>> \o charref_sub(s, i + 1)

unescape(s) ==
    IF \A i \in DOMAIN s : s[i] # "&" THEN s ELSE charref_sub(s, 1)

(***************************************************************************)
(* unescape_any                                                            *)
(***************************************************************************)
RECURSIVE unescape_any(_)
RECURSIVE unescape_items(_, _, _)

\* the loop "for k, v in obj.items(): escaped[html.unescape(k)] = ..." from
\* entry i, with escaped as built so far
unescape_items(es, i, escaped) ==
    IF i > Len(es)
    THEN escaped
    ELSE unescape_items(es, i + 1,
                        dict_set(escaped, unescape(es[i].k), unescape_any(es[i].v)))

\* the Sequence branch as list(...) instead of type(obj)(...)
unescape_any_list(obj) ==
    IF obj.t = "dict"
    THEN unescape_items(obj.v, 1, Dict(<<>>))
    ELSE IF obj.t = "str"
    THEN Str(unescape(obj.v))
    ELSE IF obj.t \in {"list", "tuple"}
    THEN List([i \in DOMAIN obj.v |-> unescape_any(obj.v[i])])
    ELSE obj

unescape_any(obj) ==
    IF obj.t = "dict"
    THEN unescape_items(obj.v, 1, Dict(<<>>))
    ELSE IF obj.t = "str"
    THEN Str(unescape(obj.v))
    ELSE IF obj.t \in {"list", "tuple"}
    THEN [t |-> obj.t, v |-> [i \in DOMAIN obj.v |-> unescape_any(obj.v[i])]]
    ELSE obj

(***************************************************************************)
(* get_trivial_pursuit_cat                                                 *)
(***************************************************************************)
opendb_to_trivial ==
    (s_Art :> s_ArtAndLiterature) @@
    (s_Animals :> s_ScienceAndNature) @@
    (s_History :> s_History) @@
    (s_Entertainment :> s_Entertainment) @@
    (s_Sports :> s_SportsAndLeisure) @@
    (s_Politics :> s_History) @@
    (s_Celebrities :> s_Entertainment) @@
    (s_Mythology :> s_History) @@
    (s_GeneralKnowledge :> s_GeneralKnowledge) @@
    (s_ScienceAmpNature :> s_ScienceAndNature) @@
    (s_Vehicles :> s_ScienceAndNature) @@
    (s_Geography :> s_Geography) @@
    (s_Science :> s_ScienceAndNature)

\* opendb_cat.rsplit(":", 1)[0]
split_last(opendb_cat) ==
    LET colons == {i \in DOMAIN opendb_cat : opendb_cat[i] = ":"}
    IN  IF colons = {}
        THEN opendb_cat
        ELSE SubSeq(opendb_cat, 1, Max(colons) - 1)

\* opendb_cat.split(":", 1)[0]
split_first(opendb_cat) ==
    LET colons == {i \in DOMAIN opendb_cat : opendb_cat[i] = ":"}
    IN  IF colons = {}
        THEN opendb_cat
        ELSE SubSeq(opendb_cat, 1, (CHOOSE i \in colons : \A j \in colons : i <= j) - 1)

\* the fallback returning opendb_cat instead of cat
get_trivial_pursuit_cat_whole(opendb_cat) ==
    LET cat == split_first(opendb_cat)
    IN  IF cat \in DOMAIN opendb_to_trivial THEN opendb_to_trivial[cat] ELSE opendb_cat

get_trivial_pursuit_cat(opendb_cat) ==
    LET cat == split_first(opendb_cat)
    IN  IF cat \in DOMAIN opendb_to_trivial THEN opendb_to_trivial[cat] ELSE cat

(***************************************************************************)
(* The remote API: records, batches and responses.                         *)
(***************************************************************************)
ERROR_CODES ==
    (0 :> "Success: Returned results successfully.") @@
    (1 :> "No Results: Could not return results. The API doesn't have enough questions for your query. (Ex. Asking for 50 Questions in a Category that only has 20.)") @@
    (2 :> "Invalid Parameter: Contains an invalid parameter. Arguments passed in aren't valid. (Ex. Amount = Five)") @@
    (3 :> "Token Not Found: Session Token does not exist.") @@
    (4 :> "Token Empty: Session Token has returned all possible questions for the specified query. Resetting the Token is necessary.") @@
    (5 :> "Rate Limit: Too many requests have occurred. Each IP can only access the API once every 5 seconds.")

\* a question record as the API sends it (the fields main never reads are left out)
raw_record(c, q) ==
    Dict(<<[k |-> s_category, v |-> Str(c)], [k |-> s_question, v |-> Str(q)]>>)

raw_records ==
    { raw_record(s_Sports, <<"q", "1">>),
      raw_record(s_ScienceEscNature, <<"1", "&", "l", "t", ";", "2">>),
      raw_record(s_EntertainmentFilm, <<"q", "3">>) }

\* the batches of at most n records
batches(n) ==
    UNION {[1 .. k -> raw_records] : k \in 0 .. n}

\* response bodies: response_code, the "error" field (<<>> when the body has
\* none, <<e>> when it is e) and the results
responses(n) ==
    {[status |-> 200, code |-> 0, error |-> <<>>, results |-> List(b)] : b \in batches(n)}
    \cup {[status |-> 200, code |-> c, error |-> e, results |-> List(<<>>)] :
             c \in 1 .. 6, e \in {<<>>, <<5>>}}
    \cup {[status |-> 429, code |-> 5, error |-> <<>>, results |-> List(<<>>)]}

no_response ==
    [status |-> 0, code |-> 0, error |-> <<>>, results |-> List(<<>>)]

\* an exception value: its class, str(e) and the position of main it was raised at
Exc(type, msg, at) ==
    [type |-> type, msg |-> msg, at |-> at]

no_exc ==
    Exc("none", <<>>, "none")

\* the f-string default of ERROR_CODES.get
unknown_error(resp) ==
    <<"Unknown Error: Response ", ToString(resp.status), " but",
      "response_code: ", ToString(resp.code)>>

\* fetch_trivia_questions on the response the session returned
fetch_trivia_questions(resp) ==
    IF resp.status >= 400
    THEN [raised |-> TRUE, exc |-> Exc("HTTPError", <<ToString(resp.status)>>, "fetch"),
          value |-> List(<<>>)]
    ELSE IF resp.code # 0
    THEN [raised |-> TRUE,
          exc |-> IF resp.error = <<>>
                  THEN Exc("KeyError", <<"'error'">>, "fetch")
                  ELSE IF resp.error[1] \in DOMAIN ERROR_CODES
                  THEN Exc("Exception", <<ERROR_CODES[resp.error[1]]>>, "fetch")
                  ELSE Exc("Exception", unknown_error(resp), "fetch"),
          value |-> List(<<>>)]
    ELSE [raised |-> FALSE, exc |-> no_exc, value |-> unescape_any(resp.results)]

(***************************************************************************)
(* db.json and read_db                                                     *)
(***************************************************************************)
\* db.json: missing, unreadable (open raises an OSError other than
\* FileNotFoundError), malformed (empty, truncated or otherwise not JSON) or
\* a JSON document of value v written with the given indent
File(k, v, indent) ==
    [k |-> k, v |-> v, indent |-> indent]

\* a record as an earlier run left it in db.json after an export
stored_sports ==
    dict_set(unescape_any(raw_record(s_Sports, <<"q", "1">>)),
             s_macro_category, Str(s_SportsAndLeisure))

initial_files ==
    { File("missing", Num, 0), File("malformed", Num, 0), File("unreadable", Num, 0),
      File("doc", Dict(<<>>), 0),
      File("doc", Dict(<<[k |-> s_SportsAndLeisure, v |-> List(<<stored_sports>>)]>>), 4),
      File("doc", List(<<>>), 0),
      File("doc", Num, 0) }

read_db(f) ==
    IF f.k \in {"missing", "malformed"}
    THEN [raised |-> FALSE, exc |-> no_exc, value |-> Dict(<<>>)]
    ELSE IF f.k = "unreadable"
    THEN [raised |-> TRUE, exc |-> Exc("OSError", <<"db.json">>, "load"), value |-> Num]
    ELSE IF f.v.t \notin {"dict", "list", "str"}
    THEN \* len(db) in the print of line 79
         [raised |-> TRUE, exc |-> Exc("TypeError", <<"len()">>, "load"), value |-> Num]
    ELSE [raised |-> FALSE, exc |-> no_exc, value |-> f.v]

(***************************************************************************)
(* The merge and export loops of main                                      *)
(***************************************************************************)
\* one pass of "for result in results": lines 129-133 on db
merge_one(d, result) ==
    LET macro_cat == get_trivial_pursuit_cat(dict_get(result, s_category).v)
    IN  IF d.t = "dict"
        THEN IF dict_has(d, macro_cat)
             THEN IF dict_get(d, macro_cat).t = "list"
                  THEN [raised |-> FALSE, exc |-> no_exc,
                        db |-> dict_set(d, macro_cat,
                                        List(Append(dict_get(d, macro_cat).v, result)))]
                  ELSE [raised |-> TRUE, exc |-> Exc("AttributeError", <<"append">>, "merge"),
                        db |-> d]
             ELSE [raised |-> FALSE, exc |-> no_exc,
                   db |-> dict_set(d, macro_cat, List(<<result>>))]
        ELSE \* "in" works on a list, the subscript that follows does not
             [raised |-> TRUE, exc |-> Exc("TypeError", <<"list indices">>, "merge"),
              db |-> d]

RECURSIVE merge_from(_, _, _)
\* the whole for loop from record i; an exception leaves the loop
merge_from(d, rs, i) ==
    IF i > Len(rs)
    THEN d
    ELSE LET r == merge_one(d, rs[i])
         IN  IF r.raised THEN r.db ELSE merge_from(r.db, rs, i + 1)

\* the for loop with the membership test taken once per batch, against the store the batch found
merge_batch_snapshot(d, rs) ==
    LET RECURSIVE go(_, _)
        go(cur, i) ==
            IF i > Len(rs)
            THEN cur
            ELSE LET macro_cat == get_trivial_pursuit_cat(dict_get(rs[i], s_category).v)
                 IN  go(IF dict_has(d, macro_cat)
                        THEN dict_set(cur, macro_cat,
                                      List(Append(dict_get(cur, macro_cat).v, rs[i])))
                        ELSE dict_set(cur, macro_cat, List(<<rs[i]>>)),
                        i + 1)
    IN  go(d, 1)

merge_batch(d, rs) ==
    merge_from(d, rs, 1)

\* question["macro_category"] = question["category"] for question j of entry i
set_macro_raw(d, i, j) ==
    Dict([x \in DOMAIN d.v |->
            IF x # i
            THEN d.v[x]
            ELSE [k |-> d.v[i].k,
                  v |-> List([y \in DOMAIN d.v[i].v.v |->
                                IF y # j
                                THEN d.v[i].v.v[y]
                                ELSE dict_set(d.v[i].v.v[j], s_macro_category,
                                              dict_get(d.v[i].v.v[j], s_category))])]])

\* question["macro_category"] = cat for question j of entry i of db
set_macro(d, i, j) ==
    Dict([x \in DOMAIN d.v |->
            IF x # i
            THEN d.v[x]
            ELSE [k |-> d.v[i].k,
                  v |-> List([y \in DOMAIN d.v[i].v.v |->
                                IF y # j
                                THEN d.v[i].v.v[y]
                                ELSE dict_set(d.v[i].v.v[j], s_macro_category,
                                              Str(d.v[i].k))])]])

\* the position after (i, j) in "for cat, questions in db.items(): for question
\* in questions", <<0, 0>> when the loops are over
RECURSIVE next_question(_, _, _)
next_question(d, i, j) ==
    IF i > Len(d.v)
    THEN <<0, 0>>
    ELSE IF j + 1 <= Len(d.v[i].v.v)
    THEN <<i, j + 1>>
    ELSE next_question(d, i + 1, 0)

RECURSIVE export_from(_, _)
\* the export loops run to their end from position p
export_from(d, p) ==
    IF p = <<0, 0>>
    THEN d
    ELSE export_from(set_macro(d, p[1], p[2]), next_question(d, p[1], p[2]))

\* flat_db once the loops are over
flat_db(d) ==
    LET RECURSIVE flat(_)
        flat(i) == IF i > Len(d.v) THEN <<>> ELSE d.v[i].v.v \o flat(i + 1)
    IN  flat(1)

\* a fresh, empty container dumped instead of db
json_dump_empty(d, indent) ==
    File("doc", IF d.t = "dict" THEN Dict(<<>>) ELSE List(<<>>), indent)

\* what json.dump(db, file) leaves in the file once it is closed
json_dump(d, indent) ==
    File("doc", d, indent)

\* the exit status of an interpreter that ends with an uncaught exception
exit_status(e) ==
    IF e.type = "KeyboardInterrupt" THEN <<130>> ELSE <<1>>

(***************************************************************************)
(* main                                                                    *)
(***************************************************************************)
loop_pcs ==
    {"fetch", "merge", "persist_open", "persist_dump", "export", "export_loop", "pause"}

drain_pcs ==
    {"drain_open", "drain_dump"}

get_new_token(ok) ==
    IF ok
    THEN [raised |-> FALSE, exc |-> no_exc, value |-> "token"]
    ELSE [raised |-> TRUE, exc |-> Exc("HTTPError", <<"api_token.php">>, "token"),
          value |-> "none"]

\* an exception nothing catches: the interpreter ends
Uncaught(e) ==
    /\ pc' = "crashed"
    /\ exc' = e
    /\ exit' = exit_status(e)

\* an exception raised inside the try block of lines 125-156 with db as d:
\* control passes to the handler of line 158
Caught(e, d) ==
    /\ pc' = "drain_open"
    /\ exc' = e
    /\ snap' = d

Init ==
    /\ pc = "load"
    /\ db = Num
    /\ file \in initial_files
    /\ file0 = file
    /\ csv = File("missing", Num, 0)
    /\ pandas \in BOOLEAN
    /\ token = "none"
    /\ response = no_response
    /\ results = List(<<>>)
    /\ idx = 0
    /\ pos = <<0, 0>>
    /\ exc = no_exc
    /\ snap = Num
    /\ writes = [loop |-> 0, final |-> 0]
    /\ exit = <<>>
    /\ cycles = 0
    /\ fetched = 0
    /\ inp = <<>>
    /\ out = <<>>

\* line 121
Load ==
    /\ pc = "load"
    /\ LET r == read_db(file)
       IN  IF r.raised
           THEN Uncaught(r.exc) /\ UNCHANGED db
           ELSE pc' = "token" /\ db' = r.value /\ UNCHANGED <<exc, exit>>
    /\ UNCHANGED <<file, file0, csv, pandas, token, response, results, idx, pos,
                   snap, writes, cycles, fetched, inp, out>>

\* line 123
GetToken ==
    /\ pc = "token"
    /\ \E ok \in BOOLEAN :
          LET r == get_new_token(ok)
          IN  IF r.raised
              THEN Uncaught(r.exc) /\ UNCHANGED token
              ELSE pc' = "fetch" /\ token' = r.value /\ UNCHANGED <<exc, exit>>
    /\ UNCHANGED <<db, file, file0, csv, pandas, response, results, idx, pos,
                   snap, writes, cycles, fetched, inp, out>>

\* line 127
Fetch ==
    /\ pc = "fetch"
    /\ cycles < MaxCycles
    /\ \E resp \in responses(MaxFetched - fetched) :
          LET r == fetch_trivia_questions(resp)
          IN  /\ response' = resp
              /\ IF r.raised
                 THEN Caught(r.exc, db) /\ UNCHANGED <<results, idx, fetched>>
                 ELSE /\ pc' = "merge"
                      /\ results' = r.value
                      /\ idx' = 1
                      /\ fetched' = fetched + Len(r.value.v)
                      /\ UNCHANGED <<exc, snap>>
    /\ UNCHANGED <<db, file, file0, csv, pandas, token, pos, writes, exit, cycles,
                   inp, out>>

\* lines 128-133, one record
MergeStep ==
    /\ pc = "merge"
    /\ idx <= Len(results.v)
    /\ LET r == merge_one(db, results.v[idx])
       IN  IF r.raised
           THEN Caught(r.exc, db) /\ UNCHANGED <<db, idx>>
           ELSE db' = r.db /\ idx' = idx + 1 /\ UNCHANGED <<pc, exc, snap>>
    /\ UNCHANGED <<file, file0, csv, pandas, token, response, results, pos, writes,
                   exit, cycles, fetched, inp, out>>

\* the for loop of line 128 is over
MergeEnd ==
    /\ pc = "merge"
    /\ idx > Len(results.v)
    /\ pc' = "persist_open"
    /\ UNCHANGED <<db, file, file0, csv, pandas, token, response, results, idx, pos,
                   exc, snap, writes, exit, cycles, fetched, inp, out>>

\* line 135: open("db.json", "w") truncates the file, or raises an OSError
PersistOpen ==
    /\ pc = "persist_open"
    /\ \E ok \in BOOLEAN :
          IF ok
          THEN /\ file' = File("malformed", Num, 0)
               /\ pc' = "persist_dump"
               /\ UNCHANGED <<exc, snap>>
          ELSE Caught(Exc("OSError", <<"db.json">>, "persist_open"), db) /\ UNCHANGED file
    /\ UNCHANGED <<db, file0, csv, pandas, token, response, results, idx, pos, writes,
                   exit, cycles, fetched, inp, out>>

\* line 136 and the close of the with block: the document is written, or a
\* write raises an OSError and leaves a part of it
PersistDump ==
    /\ pc = "persist_dump"
    /\ \E ok \in BOOLEAN :
          IF ok
          THEN /\ file' = json_dump(db, 0)
               /\ writes' = [writes EXCEPT !.loop = @ + 1]
               /\ pc' = "export"
               /\ UNCHANGED <<exc, snap>>
          ELSE /\ Caught(Exc("OSError", <<"db.json">>, "persist_dump"), db)
               /\ UNCHANGED <<file, writes>>
    /\ UNCHANGED <<db, file0, csv, pandas, token, response, results, idx, pos, exit,
                   cycles, fetched, inp, out>>

\* lines 139-142: the import, and db.items()
ExportImport ==
    /\ pc = "export"
    /\ IF ~pandas
       THEN pc' = "pause" /\ UNCHANGED <<pos, exc, snap>>
       ELSE IF db.t # "dict"
       THEN Caught(Exc("AttributeError", <<"items">>, "export"), db) /\ UNCHANGED pos
       ELSE /\ pc' = "export_loop"
            /\ pos' = next_question(db, 1, 0)
            /\ UNCHANGED <<exc, snap>>
    /\ UNCHANGED <<db, file, file0, csv, pandas, token, response, results, idx, writes,
                   exit, cycles, fetched, inp, out>>

\* lines 143-145, one question
ExportStep ==
    /\ pc = "export_loop"
    /\ pos # <<0, 0>>
    /\ db' = set_macro(db, pos[1], pos[2])
    /\ pos' = next_question(db, pos[1], pos[2])
    /\ UNCHANGED <<pc, file, file0, csv, pandas, token, response, results, idx, exc,
                   snap, writes, exit, cycles, fetched, inp, out>>

\* lines 147-148: db.csv is written, or to_csv raises an OSError
ExportCsv ==
    /\ pc = "export_loop"
    /\ pos = <<0, 0>>
    /\ \E ok \in BOOLEAN :
          IF ok
          THEN /\ csv' = File("doc", List(flat_db(db)), 0)
               /\ pc' = "pause"
               /\ UNCHANGED <<exc, snap>>
          ELSE Caught(Exc("OSError", <<"db.csv">>, "export_loop"), db) /\ UNCHANGED csv
    /\ UNCHANGED <<db, file, file0, pandas, token, response, results, idx, pos, writes,
                   exit, cycles, fetched, inp, out>>

\* lines 153-156: the progress line and the pause; the loop starts over
Pause ==
    /\ pc = "pause"
    /\ pc' = "fetch"
    /\ cycles' = cycles + 1
    /\ response' = no_response
    /\ UNCHANGED <<db, file, file0, csv, pandas, token, results, idx, pos, exc, snap,
                   writes, exit, fetched, inp, out>>

\* Ctrl-C before the try block: nothing catches it
InterruptStarting ==
    /\ pc \in {"load", "token"}
    /\ Uncaught(Exc("KeyboardInterrupt", <<>>, pc))
    /\ UNCHANGED <<db, file, file0, csv, pandas, token, response, results, idx, pos,
                   snap, writes, cycles, fetched, inp, out>>

\* Ctrl-C inside the try block, with a handler for Exception alone
InterruptRunningUncaught ==
    /\ pc \in loop_pcs
    /\ Uncaught(Exc("KeyboardInterrupt", <<>>, pc))
    /\ UNCHANGED <<db, file, file0, csv, pandas, token, response, results, idx, pos,
                   snap, writes, cycles, fetched, inp, out>>

\* Ctrl-C inside the try block
InterruptRunning ==
    /\ pc \in loop_pcs
    /\ Caught(Exc("KeyboardInterrupt", <<>>, pc), db)
    /\ UNCHANGED <<db, file, file0, csv, pandas, token, response, results, idx, pos,
                   writes, exit, cycles, fetched, inp, out>>

\* Ctrl-C inside the handler
InterruptDraining ==
    /\ pc \in drain_pcs
    /\ Uncaught(Exc("KeyboardInterrupt", <<>>, pc))
    /\ UNCHANGED <<db, file, file0, csv, pandas, token, response, results, idx, pos,
                   snap, writes, cycles, fetched, inp, out>>

\* lines 159-160: print(e) and open("db.json", "w")
DrainOpen ==
    /\ pc = "drain_open"
    /\ \E ok \in BOOLEAN :
          IF ok
          THEN /\ file' = File("malformed", Num, 0)
               /\ pc' = "drain_dump"
               /\ UNCHANGED <<exc, exit>>
          ELSE Uncaught(Exc("OSError", <<"db.json">>, "drain_open")) /\ UNCHANGED file
    /\ UNCHANGED <<db, file0, csv, pandas, token, response, results, idx, pos, snap,
                   writes, cycles, fetched, inp, out>>

\* lines 161-162: json.dump(db, f, indent=4), the close, and main returns
DrainDump ==
    /\ pc = "drain_dump"
    /\ \E ok \in BOOLEAN :
          IF ok
          THEN /\ file' = json_dump(db, 4)
               /\ writes' = [writes EXCEPT !.final = @ + 1]
               /\ pc' = "stopped"
               /\ exit' = <<0>>
               /\ UNCHANGED exc
          ELSE /\ Uncaught(Exc("OSError", <<"db.json">>, "drain_dump"))
               /\ UNCHANGED <<file, writes>>
    /\ UNCHANGED <<db, file0, csv, pandas, token, response, results, idx, pos, snap,
                   cycles, fetched, inp, out>>

Next ==
    \/ Load
    \/ GetToken
    \/ Fetch
    \/ MergeStep
    \/ MergeEnd
    \/ PersistOpen
    \/ PersistDump
    \/ ExportImport
    \/ ExportStep
    \/ ExportCsv
    \/ Pause
    \/ InterruptStarting
    \/ InterruptRunning
    \/ InterruptDraining
    \/ DrainOpen
    \/ DrainDump

Spec ==
    Init /\ [][Next]_vars

(***************************************************************************)
(* Specifications of the pure functions: Init draws an input, the actions  *)
(* apply the function; main does not run.                                  *)
(***************************************************************************)
Idle ==
    /\ pc = "idle"
    /\ db = Num
    /\ file = File("missing", Num, 0)
    /\ file0 = file
    /\ csv = File("missing", Num, 0)
    /\ pandas = FALSE
    /\ token = "none"
    /\ response = no_response
    /\ results = List(<<>>)
    /\ idx = 0
    /\ pos = <<0, 0>>
    /\ exc = no_exc
    /\ snap = Num
    /\ writes = [loop |-> 0, final |-> 0]
    /\ exit = <<>>
    /\ cycles = 0
    /\ fetched = 0

RECURSIVE texts_of(_, _)
\* the texts made of at most n pieces of P
texts_of(P, n) ==
    IF n = 0
    THEN {<<>>}
    ELSE LET T == texts_of(P, n - 1) IN T \cup {t \o p : t \in T, p \in P}

\* ---- unescape_any ----
esc_pieces ==
    {<<"&">>, <<"a", "m", "p">>, <<";">>, <<"l", "t">>, <<"<">>}

\* texts put into containers: "&", "<", "&amp;", "&lt;", "&amp;lt;", "q"
elem_texts ==
    { <<"&">>, <<"<">>, <<"&", "a", "m", "p", ";">>, <<"&", "l", "t", ";">>,
      <<"&", "a", "m", "p", ";", "l", "t", ";">>, <<"q">> }

elem_values ==
    {Str(s) : s \in elem_texts} \cup {List(<<Str(s)>>) : s \in elem_texts}

unescape_inputs ==
    {Str(s) : s \in texts_of(esc_pieces, MaxPieces)}
    \cup {List(xs) : xs \in UNION {[1 .. n -> {Str(s) : s \in elem_texts}] : n \in 0 .. 2}}
    \cup {Tuple(xs) : xs \in UNION {[1 .. n -> {Str(s) : s \in elem_texts}] : n \in 0 .. 2}}
    \cup {Dict(<<[k |-> k1, v |-> v1]>>) : k1 \in elem_texts, v1 \in elem_values}
    \cup {Dict(<<[k |-> ks[1], v |-> Str(s1)], [k |-> ks[2], v |-> Str(s2)]>>) :
             ks \in {p \in elem_texts \X elem_texts : p[1] # p[2]},
             s1 \in elem_texts, s2 \in elem_texts}
    \cup {List(<<Dict(<<[k |-> k1, v |-> v1]>>)>>) : k1 \in elem_texts, v1 \in elem_values}
    \cup {Num, List(<<Num>>)}

InitUnescape ==
    /\ Idle
    /\ inp \in unescape_inputs
    /\ out = <<>>

\* unescape_any(inp)
Normalize ==
    /\ out = <<>>
    /\ out' = <<unescape_any(inp)>>
    /\ UNCHANGED <<main_vars, inp>>

\* unescape_any of the value unescape_any returned
NormalizeAgain ==
    /\ Len(out) = 1
    /\ out' = Append(out, unescape_any(out[1]))
    /\ UNCHANGED <<main_vars, inp>>

NextUnescape ==
    \/ Normalize
    \/ NormalizeAgain

UnescapeSpec ==
    InitUnescape /\ [][NextUnescape]_vars

\* ---- get_trivial_pursuit_cat ----
cat_pieces ==
    {s_Sports, s_UnknownCategory, s_EntertainmentAnime, <<":">>, <<" ">>}

cat_texts ==
    texts_of(cat_pieces, MaxPieces)

InitMapper ==
    /\ Idle
    /\ inp \in cat_texts
    /\ out = <<>>

\* get_trivial_pursuit_cat(inp)
MapCategory ==
    /\ out = <<>>
    /\ out' = <<get_trivial_pursuit_cat(inp)>>
    /\ UNCHANGED <<main_vars, inp>>

\* a record of category inp merged into an empty store
MergeMapped ==
    /\ Len(out) = 1
    /\ out' = Append(out, merge_one(Dict(<<>>), raw_record(inp, <<"q">>)).db)
    /\ UNCHANGED <<main_vars, inp>>

NextMapper ==
    \/ MapCategory
    \/ MergeMapped

MapperSpec ==
    InitMapper /\ [][NextMapper]_vars

\* ---- the merge of lines 128-133 over several passes of the loop ----
\* records as fetch_trivia_questions returns them; two of them ("Entertainment:
\* Film" and "Celebrities") fall under the same key
fetched_records ==
    {unescape_any(r) : r \in raw_records \cup {raw_record(s_Celebrities, <<"q", "4">>)}}

merge_stores ==
    { Dict(<<>>),
      Dict(<<[k |-> s_SportsAndLeisure, v |-> List(<<stored_sports>>)]>>),
      Dict(<<[k |-> s_ScienceAndNature, v |-> List(<<>>)],
             [k |-> s_Entertainment, v |-> List(<<stored_sports>>)]>>) }

\* one pass of the loop that fetched rs: the merge, then the export loops
\* when pandas is installed
loop_pass(d, rs, pd) ==
    LET m == merge_batch(d, rs)
    IN  IF pd THEN export_from(m, next_question(m, 1, 0)) ELSE m

InitMerge ==
    /\ Idle
    /\ inp \in [db : merge_stores, a : fetched_records, b : fetched_records,
                c : fetched_records, pd : BOOLEAN]
    /\ out = [two |-> <<>>, three |-> <<>>]

\* the batch [a, b], then the batch [c]
MergeTwoBatches ==
    /\ out.two = <<>>
    /\ out' = [out EXCEPT
                 !.two = <<loop_pass(loop_pass(inp.db, <<inp.a, inp.b>>, inp.pd),
                                     <<inp.c>>, inp.pd)>>]
    /\ UNCHANGED <<main_vars, inp>>

\* the batches [a], [b] and [c]
MergeThreeBatches ==
    /\ out.three = <<>>
    /\ out' = [out EXCEPT
                 !.three = <<loop_pass(loop_pass(loop_pass(inp.db, <<inp.a>>, inp.pd),
                                                 <<inp.b>>, inp.pd),
                                       <<inp.c>>, inp.pd)>>]
    /\ UNCHANGED <<main_vars, inp>>

NextMerge ==
    \/ MergeTwoBatches
    \/ MergeThreeBatches

MergeSpec ==
    InitMerge /\ [][NextMerge]_vars

(***************************************************************************)
(* Properties                                                              *)
(***************************************************************************)
\* s_macro_category removed from record r
without_macro(r) ==
    Dict(SelectSeq(r.v, LAMBDA e : e.k # s_macro_category))

\* the store with s_macro_category removed from every record
strip_macro(d) ==
    IF d.t # "dict"
    THEN d
    ELSE Dict([i \in DOMAIN d.v |->
                 [k |-> d.v[i].k,
                  v |-> List([j \in DOMAIN d.v[i].v.v |-> without_macro(d.v[i].v.v[j])])]])

\* the part of text s before its first ":" (all of s when it has none)
before_colon(s) ==
    LET n == CHOOSE m \in 0 .. Len(s) :
                 /\ \A i \in 1 .. m : s[i] # ":"
                 /\ m = Len(s) \/ s[m + 1] = ":"
    IN  SubSeq(s, 1, n)

\* the states of the accumulator's lifecycle, by the position of main
Phase(p) ==
    IF p \in {"load", "token"} THEN "Starting"
    ELSE IF p \in loop_pcs THEN "Running"
    ELSE IF p \in drain_pcs THEN "Draining"
    ELSE "Stopped"

C2_NoDuplicateRecords ==
    db.t = "dict"
        => LET fl == flat_db(db)
           IN  \A i, j \in DOMAIN fl :
                  i # j => without_macro(fl[i]) # without_macro(fl[j])

\* the message the claim gives a response with a non-zero response_code
message_of_code(resp) ==
    IF resp.code \in 1 .. 5
    THEN <<ERROR_CODES[resp.code]>>
    ELSE <<"Unknown Error: Response ", ToString(resp.status), " but",
           "response_code: ", ToString(resp.code)>>

\* C3 as stated: a batch response with a non-zero response_code fails with the
\* message that response_code determines, and nothing is merged.
C3_MessageByResponseCode ==
    (pc = "drain_open" /\ exc.at = "fetch" /\ response.status = 200 /\ response.code # 0)
        => (exc.type = "Exception" /\ exc.msg = message_of_code(response) /\ db = snap)

\* the store as a mapping: its keys, and the records grouped under each
same_store(x, y) ==
    /\ {x.v[i].k : i \in DOMAIN x.v} = {y.v[i].k : i \in DOMAIN y.v}
    /\ \A i \in DOMAIN x.v : dict_get(x, x.v[i].k) = dict_get(y, x.v[i].k)

\* C4: merging the batch [A, B] and then [C] gives the same keys and the same
\* grouped records as merging [A], [B] and [C] in three passes.
C4_BatchSplitIrrelevant ==
    (out.two # <<>> /\ out.three # <<>>) => same_store(out.two[1], out.three[1])

\* C4 witness: A and B are different records of one category the starting
\* store lacks, C is of another category
C4_Witness ==
    /\ out.two # <<>>
    /\ out.three # <<>>
    /\ inp.db = Dict(<<>>)
    /\ inp.pd
    /\ inp.a # inp.b
    /\ dict_get(inp.a, s_category) = Str(s_EntertainmentFilm)
    /\ dict_get(inp.b, s_category) = Str(s_Celebrities)
    /\ dict_get(inp.c, s_category) = Str(s_Sports)
    /\ Len(out.two[1].v) = 2
    /\ out.two[1].v[1].k = s_Entertainment
    /\ Len(out.two[1].v[1].v.v) = 2

C6_MapperNeverEmpty ==
    /\ Len(out) >= 1 => out[1] # <<>>
    /\ Len(out) >= 2 => \A i \in DOMAIN out[2].v : out[2].v[i].k # <<>>

\* C6 amended: for every input string the mapper returns a string and the
\* record is merged under it; the result is the empty string exactly when the
\* input is empty or begins with ":", and then the empty string is a key of
\* the store.
C6_MapperTotal ==
    /\ Len(out) >= 1 =>
          /\ out[1] \in Seq(STRING)
          /\ out[1] = <<>> <=> (inp = <<>> \/ inp[1] = ":")
    /\ Len(out) >= 2 =>
          /\ out[2].t = "dict"
          /\ {out[2].v[i].k : i \in DOMAIN out[2].v} = {out[1]}

\* C6 witness: an input beginning with ":" was merged under the empty key
C6_Witness ==
    /\ Len(out) = 2
    /\ inp # <<>>
    /\ inp[1] = ":"
    /\ out[1] = <<>>
    /\ dict_has(out[2], <<>>)

\* C7 as stated: load does not raise, and whatever the file holds the value
\* it returns is a mapping from key to lists of records.
C7_LoadReturnsStore ==
    pc # "load" =>
        /\ ~(exc.at = "load" /\ exc.type # "KeyboardInterrupt")
        /\ exc.at # "load" =>
              /\ db.t = "dict"
              /\ \A i \in DOMAIN db.v : db.v[i].v.t = "list"

RECURSIVE no_charref(_)
\* no text of value x, keys included, holds "&" followed by a name character
no_charref(x) ==
    LET plain(s) == \A i \in DOMAIN s : ~(s[i] = "&" /\ i < Len(s) /\ name_char(s[i + 1]))
    IN  IF x.t = "str" THEN plain(x.v)
        ELSE IF x.t \in {"list", "tuple"} THEN \A i \in DOMAIN x.v : no_charref(x.v[i])
        ELSE IF x.t = "dict"
        THEN \A i \in DOMAIN x.v : plain(x.v[i].k) /\ no_charref(x.v[i].v)
        ELSE TRUE

\* C8 as stated: unescape_any(unescape_any(x)) = unescape_any(x).
C8_NormalizeIdempotent ==
    Len(out) = 2 => out[2] = out[1]

\* C8 amended: normalizing a value none of whose texts (keys included) holds
\* a character reference returns it unchanged, with the same container type
\* at every level; so a second normalization changes nothing when the first
\* left no character reference behind.
C8_NormalizeFixesReferenceFree ==
    /\ (Len(out) >= 1 /\ no_charref(inp)) => out[1] = inp
    /\ (Len(out) = 2 /\ no_charref(out[1])) => out[2] = out[1]

\* C8 witness: a mapping the first normalization changed and the second did not
C8_Witness ==
    /\ Len(out) = 2
    /\ inp.t = "dict"
    /\ out[1] # inp
    /\ no_charref(out[1])
    /\ out[2] = out[1]

\* the lifecycle moves forward only, and never from Running to Stopped
lifecycle_order ==
    <<Phase(pc), Phase(pc')>> \in
        { <<"Starting", "Starting">>, <<"Starting", "Running">>, <<"Starting", "Stopped">>,
          <<"Running", "Running">>, <<"Running", "Draining">>,
          <<"Draining", "Draining">>, <<"Draining", "Stopped">>,
          <<"Stopped", "Stopped">> }

\* what C9 says of Starting and Running
lifecycle_common ==
    /\ lifecycle_order
    /\ (Phase(pc) = "Running" /\ exc' # exc) => (Phase(pc') = "Draining" /\ db' = db)
    /\ (Phase(pc) = "Running" /\ exc' = exc) => Phase(pc') = "Running"
    /\ (Phase(pc) = "Starting" /\ Phase(pc') = "Running") => token' # "none"
    /\ (Phase(pc) = "Starting" /\ Phase(pc') = "Stopped") =>
          (exit' # <<0>> /\ file' = file0 /\ csv' = csv /\ writes' = [loop |-> 0, final |-> 0])

C10_FileEqualsStoreAtPause ==
    pc = "pause" => (file.k = "doc" /\ file.v = db)

\* C10 amended: at every pause db.json is a complete document holding the
\* store as it was before this cycle's export: the same keys and the same
\* records in the same order, each record equal to the one in memory or equal
\* to it without the macro_category field; after an export every record in
\* memory carries macro_category, equal to its key, and when the export is
\* skipped db.json equals the store in memory.
C10_FileIsStoreBeforeExport ==
    pc = "pause" =>
        /\ file.k = "doc"
        /\ file.indent = 0
        /\ strip_macro(file.v) = strip_macro(db)
        /\ ~pandas => file.v = db
        /\ pandas =>
              /\ db.t = "dict"
              /\ \A i \in DOMAIN db.v : \A j \in DOMAIN db.v[i].v.v :
                    /\ dict_has(db.v[i].v.v[j], s_macro_category)
                    /\ dict_get(db.v[i].v.v[j], s_macro_category) = Str(db.v[i].k)
                    /\ \/ file.v.v[i].v.v[j] = db.v[i].v.v[j]
                       \/ file.v.v[i].v.v[j] = without_macro(db.v[i].v.v[j])

\* C10 witness: the second pause of a run with pandas, where db.json lacks the
\* macro_category of the records merged in this cycle
C10_Witness ==
    /\ pc = "pause"
    /\ pandas
    /\ cycles = 1
    /\ file.v # db
    /\ Len(results.v) >= 1

=============================================================================
